---- MODULE Spec2Model ----
\* A model of the fantasy-points pipeline of portfolio_api:
\*   utils/queue.js        RequestQueue (admission queue)
\*   utils/pythonQueue.js  runPythonScriptQueued (process adapter)
\*   utils/cache.js        getCachedData (result cache)
EXTENDS Integers, Sequences, FiniteSets, TLC

\* ---------------------------------------------------------------- bounds
\* RequestQueue.maxConcurrent: a constructor argument (default 75% of the cores).
maxConcurrent == 2
\* add() calls of one run: a burst of 2 x maxConcurrent submissions.
NumTasks == 2 * maxConcurrent
Tasks == 1..NumTasks
\* runPythonScriptQueued() calls of one run: one more than the slots.
NumProcs == maxConcurrent + 1
\* Exit statuses of a child process: 0..MaxExitCode (a process ended by a
\* signal reports null, which the handler treats like any status but 0).
MaxExitCode == 1
ExitCodes == 0..MaxExitCode
\* MAX_CACHE_SIZE (1000 in the source), scaled down.
MaxCacheSize == 2
\* Cache keys: one more than the cache holds.
Keys == 1..(MaxCacheSize + 1)
\* getCachedData calls of one run.
NumCalls == MaxCacheSize + 2
Calls == 1..NumCalls
\* The ttl arguments, in seconds: 1..MaxTtl.
MaxTtl == 2
\* CACHE_TTL of utils/cache.js (3600 s in the source), scaled down.
FixedTtl == 1
\* The clock runs from 0 to MaxTime seconds, one second a tick.
MaxTime == 1
\* Grid and finishing positions: 1..MaxPosition, two past the points table.
MaxPosition == 12
\* Overtakes of one driver: 0..MaxOvertakes.
MaxOvertakes == 2
\* Records of one list of a results document: 0..MaxRecords.
MaxRecords == 2

VARIABLES
    queue,      \* RequestQueue.queue: sequence of {task, resolve, reject} entries
    active,     \* RequestQueue.active: the set of running task ids
    submitted,  \* number of add() calls made so far; the next task is submitted + 1
    kind,       \* what each submitted task function does when it is called
    started,    \* history: the tasks in the order execute() called task()
    parked,     \* history: the tasks add() pushed on the queue, in push order
    waiter,     \* the caller promise that execute(task)'s promise is chained to
    settled,    \* the settlement of the promise task() returned
    delivered,  \* the settlement of the promise add() returned to each caller
    proc,       \* the child process of a python task
    timer,      \* the setTimeout of a python task
    input,      \* the arguments of the pure function under check
    output,     \* its result, once it has been applied
    variant,    \* which getCachedData is loaded: "fixed" (utils/cache.js, one
                \* TTL, no size limit) or "sized" (ttl argument, size limit)
    cache,      \* the module's Map, as its entries in insertion order
    now,        \* Date.now(), in milliseconds
    begun,      \* number of getCachedData calls made so far
    call,       \* each call: where it stands, and while its fetch runs its key
                \* and the clock it read
    keysUsed,   \* number of distinct keys passed so far
    fetches,    \* number of fetchFn() invocations so far
    returned,   \* the latest call to end, and how it ended
    evicted     \* the key that call deleted in its cleanup, 0 if it deleted none

queueVars == <<queue, active, submitted, kind, started, parked, waiter, settled,
               delivered, proc, timer>>
pureVars == <<input, output>>
cacheVars == <<variant, cache, now, begun, call, keysUsed, fetches, returned,
               evicted>>
vars == <<queue, active, submitted, kind, started, parked, waiter, settled,
          delivered, proc, timer, input, output, variant, cache, now, begun,
          call, keysUsed, fetches, returned, evicted>>

\* ------------------------------------------------------- promise outcomes
Pending == <<"pending">>
Resolved(v) == <<"resolved", v>>
Rejected(m) == <<"rejected", m>>
IsRejected(o) == o[1] = "rejected"
IsResolved(o) == o[1] = "resolved"

\* The value and the error of a generic task: each names the task that made it.
TaskValue(t) == <<"num", t>>
TaskError(t) == "task error " \o ToString(t)

\* ------------------------------------------------------------ RequestQueue
\* The state the queue operations read and write, as one record.
St ==
    [queue |-> queue, active |-> active, kind |-> kind, started |-> started,
     parked |-> parked, waiter |-> waiter, settled |-> settled,
     delivered |-> delivered, proc |-> proc, timer |-> timer]

Install(s) ==
    /\ queue' = s.queue
    /\ active' = s.active
    /\ kind' = s.kind
    /\ started' = s.started
    /\ parked' = s.parked
    /\ waiter' = s.waiter
    /\ settled' = s.settled
    /\ delivered' = s.delivered
    /\ proc' = s.proc
    /\ timer' = s.timer

RECURSIVE execute(_, _, _)
RECURSIVE processQueue(_)

\* Mutant: the release written after the await instead of in a finally block,
\* so that a rejected task skips it.
executeFinallySkippedOnError(s, t) ==
    IF IsRejected(s.settled[t])
    THEN s
    ELSE processQueue([s EXCEPT !.active = @ \ {t}])

\* Mutant: the finally block releases the slot and forgets processQueue().
executeFinallyNoProcessQueue(s, t) ==
    [s EXCEPT !.active = @ \ {t}]

\* execute()'s finally block: active.delete(taskId); this.processQueue().
executeFinally(s, t) ==
    processQueue([s EXCEPT !.active = @ \ {t}])

\* execute(task), its promise consumed by caller promise c.
\*   active.add(taskId); await task(); finally { ... }
\* A task that throws synchronously reaches the finally block at once; the
\* others return a pending promise and execute() suspends at the await.
execute(s, t, c) ==
    LET s1 == [s EXCEPT !.active = @ \cup {t}, !.started = Append(@, t)]
    IN  CASE s.kind[t] = "throws" ->
               LET s2 == executeFinally(
                             [s1 EXCEPT !.settled[t] = Rejected(TaskError(t))], t)
               IN  [s2 EXCEPT !.delivered[c] = Rejected(TaskError(t))]
          [] s.kind[t] = "async" ->
               [s1 EXCEPT !.waiter[t] = c]
          [] s.kind[t] = "python" ->
               [s1 EXCEPT !.waiter[t] = c, !.proc[t] = "running",
                          !.timer[t] = "armed"]

\* Mutant: queue.pop() in place of queue.shift().
processQueuePop(s) ==
    IF Len(s.queue) = 0 \/ Cardinality(s.active) >= maxConcurrent
    THEN s
    ELSE LET e == s.queue[Len(s.queue)]
         IN  execute([s EXCEPT !.queue = SubSeq(@, 1, Len(@) - 1)],
                     e.task, e.resolve)

\* Mutant: the head's task run with the resolve/reject of the last entry.
processQueueCrossed(s) ==
    IF Len(s.queue) = 0 \/ Cardinality(s.active) >= maxConcurrent
    THEN s
    ELSE LET e == Head(s.queue)
         IN  execute([s EXCEPT !.queue = Tail(@)], e.task,
                     s.queue[Len(s.queue)].resolve)

\* Mutant: the head is read with queue[0] and stays in the queue.
processQueuePeek(s) ==
    IF Len(s.queue) = 0 \/ Cardinality(s.active) >= maxConcurrent
    THEN s
    ELSE LET e == Head(s.queue)
         IN  execute(s, e.task, e.resolve)

\* Mutant: a waiting task is started only when two slots are free.
processQueueSpareSlot(s) ==
    IF Len(s.queue) = 0 \/ Cardinality(s.active) + 1 >= maxConcurrent
    THEN s
    ELSE LET e == Head(s.queue)
         IN  execute([s EXCEPT !.queue = Tail(@)], e.task, e.resolve)

\* processQueue(): start the head of the queue if a slot is free.
processQueue(s) ==
    IF Len(s.queue) = 0 \/ Cardinality(s.active) >= maxConcurrent
    THEN s
    ELSE LET e == Head(s.queue)
         IN  execute([s EXCEPT !.queue = Tail(@)], e.task, e.resolve)

\* Mutant: the capacity test off by one (<= in place of <).
addOffByOne(s, t) ==
    IF Cardinality(s.active) <= maxConcurrent
    THEN execute(s, t, t)
    ELSE [s EXCEPT !.queue = Append(@, [task |-> t, resolve |-> t]),
                   !.parked = Append(@, t)]

\* add(task) by caller t: run now if a slot is free, else park the entry.
add(s, t) ==
    IF Cardinality(s.active) < maxConcurrent
    THEN execute(s, t, t)
    ELSE [s EXCEPT !.queue = Append(@, [task |-> t, resolve |-> t]),
                   !.parked = Append(@, t)]

\* The continuation of execute() after the awaited promise settled with o:
\* the finally block runs, then the outcome goes to the waiting caller.
resume(s, t) ==
    LET s2 == executeFinally(s, t)
    IN  [s2 EXCEPT !.delivered[s.waiter[t]] = s.settled[t]]

\* ------------------------------------------------- JSON text and values
\* What a child process can have written on stdout or stderr by the time it
\* closes: nothing, text that is no JSON, and JSON documents.
Texts ==
    {"", "Traceback", "null",
     "{\"drivers\":2}",
     "{\"drivers\":2,\"memory_stats\":{\"current\":1,\"peak\":2}}",
     "{\"drivers\":2,\"memory_stats\":0}",
     "{\"error\":\"boom\"}",
     "{\"error\":\"boom\",\"memory_stats\":{\"current\":1,\"peak\":2}}",
     "{\"error\":\"Request queue timeout\"}",
     "{\"detail\":\"x\"}"}

JNull == <<"null">>
JUndefined == <<"undefined">>
JNum(n) == <<"num", n>>
JStr(x) == <<"str", x>>
JObj(f) == <<"obj", f>>
SyntaxError == <<"SyntaxError">>
MemoryStats == JObj([current |-> JNum(1), peak |-> JNum(2)])

\* JSON.parse(text) on Texts: the parsed value, or SyntaxError when it throws.
JSONparse(text) ==
    CASE text = "null" -> JNull
      [] text = "{\"drivers\":2}" -> JObj([drivers |-> JNum(2)])
      [] text = "{\"drivers\":2,\"memory_stats\":{\"current\":1,\"peak\":2}}" ->
            JObj([drivers |-> JNum(2), memory_stats |-> MemoryStats])
      [] text = "{\"drivers\":2,\"memory_stats\":0}" ->
            JObj([drivers |-> JNum(2), memory_stats |-> JNum(0)])
      [] text = "{\"error\":\"boom\"}" -> JObj([error |-> JStr("boom")])
      [] text = "{\"error\":\"boom\",\"memory_stats\":{\"current\":1,\"peak\":2}}" ->
            JObj([error |-> JStr("boom"), memory_stats |-> MemoryStats])
      [] text = "{\"error\":\"Request queue timeout\"}" ->
            JObj([error |-> JStr("Request queue timeout")])
      [] text = "{\"detail\":\"x\"}" -> JObj([detail |-> JStr("x")])
      [] OTHER -> SyntaxError

IsObj(v) == v[1] = "obj"
HasField(v, k) == IsObj(v) /\ k \in DOMAIN v[2]
\* v.k for a value that is not null (reading a property of null throws).
Get(v, k) == IF HasField(v, k) THEN v[2][k] ELSE JUndefined
\* JavaScript truthiness.
Truthy(v) ==
    CASE v[1] = "null" -> FALSE
      [] v[1] = "undefined" -> FALSE
      [] v[1] = "num" -> v[2] # 0
      [] v[1] = "str" -> v[2] # ""
      [] OTHER -> TRUE
\* delete v.k
Delete(v, k) == JObj([f \in DOMAIN v[2] \ {k} |-> v[2][f]])
\* The message of new Error(v).
MessageOf(v) == IF v[1] = "str" THEN v[2] ELSE ToString(v[2])

\* --------------------------------------------------- runPythonScriptQueued
QUEUE_TIMEOUT_MESSAGE == "Request queue timeout"
INVALID_JSON_MESSAGE == "Invalid JSON from Python script"

\* The settlement the 'close' handler asks for, from the exit status and
\* the buffered stdout (data) and stderr (error). A throw inside either try
\* block (a SyntaxError of JSON.parse, a TypeError of reading memory_stats
\* of null) lands in its catch.
closeHandler(code, data, error) ==
    IF code # 0 /\ error # ""
    THEN LET errorData == JSONparse(error)
         IN  IF errorData = SyntaxError \/ errorData = JNull
             THEN Rejected(error)
             ELSE IF Truthy(Get(errorData, "error"))
                  THEN Rejected(MessageOf(Get(errorData, "error")))
                  ELSE Rejected(error)
    ELSE LET jsonData == JSONparse(data)
         IN  IF jsonData = SyntaxError \/ jsonData = JNull
             THEN Rejected(INVALID_JSON_MESSAGE)
             ELSE IF Truthy(Get(jsonData, "memory_stats"))
                  THEN Resolved(Delete(jsonData, "memory_stats"))
                  ELSE Resolved(jsonData)

\* resolve(v) or reject(e) of the task's promise: the first call settles it
\* and later calls do nothing. Timer and 'close' callbacks run as their own
\* macrotask, so the microtask that resumes execute() runs before any other
\* callback or request handler.
settle(s, t, o) ==
    IF s.settled[t] # Pending
    THEN s
    ELSE resume([s EXCEPT !.settled[t] = o], t)

\* Mutant: the timer callback rejects and leaves the process running.
timeoutCallbackNoKill(s, t) ==
    settle([s EXCEPT !.timer[t] = "fired"], t, Rejected(QUEUE_TIMEOUT_MESSAGE))

\* The setTimeout callback: proc.kill(); reject(new Error(QUEUE_TIMEOUT)).
timeoutCallback(s, t) ==
    settle([s EXCEPT !.timer[t] = "fired",
                     !.proc[t] = IF @ = "running" THEN "killed" ELSE @],
           t, Rejected(QUEUE_TIMEOUT_MESSAGE))

\* The 'close' listener: clearTimeout(timeout), then the settlement.
closeListener(s, t, code, data, error) ==
    settle([s EXCEPT !.proc[t] = "exited",
                     !.timer[t] = IF @ = "armed" THEN "cleared" ELSE @],
           t, closeHandler(code, data, error))

\* ------------------------------------------------------------ getCachedData
NoCall == [pc |-> "idle", key |-> 0, now |-> 0]
NoReturn == [how |-> "none", value |-> 0]
\* A Map entry: key -> {data, timestamp}.
NoEntry == [key |-> 0, data |-> 0, timestamp |-> 0]

\* cache.get(key): the entry, or NoEntry for undefined.
cacheGet(m, k) ==
    IF \E i \in DOMAIN m : m[i].key = k
    THEN m[CHOOSE i \in DOMAIN m : m[i].key = k]
    ELSE NoEntry

cacheHas(m, k) == \E i \in DOMAIN m : m[i].key = k

\* cache.delete(key)
cacheDelete(m, k) == SelectSeq(m, LAMBDA e : e.key # k)

\* cache.set(key, {data, timestamp}): a present key keeps its place in the
\* insertion order, a new key goes last.
cacheSet(m, k, e) ==
    IF cacheHas(m, k)
    THEN [i \in DOMAIN m |-> IF m[i].key = k THEN e ELSE m[i]]
    ELSE Append(m, e)

\* Mutant: the cleanup deletes the first inserted entry.
oldestKeyFirstInserted(m) == m[1].key

\* [...cache.entries()].sort((a, b) => a.timestamp - b.timestamp)[0][0]:
\* the sort is stable, so among equal timestamps the first inserted wins.
oldestKey(m) ==
    LET i == CHOOSE j \in DOMAIN m :
                 \A l \in DOMAIN m :
                     \/ m[j].timestamp < m[l].timestamp
                     \/ (m[j].timestamp = m[l].timestamp /\ j <= l)
    IN  m[i].key

\* The ttl a call is checked against: the argument, or CACHE_TTL.
effectiveTtl(v, ttl) == IF v = "fixed" THEN FixedTtl ELSE ttl

\* Mutant: ttl compared in seconds against a difference in milliseconds.
isFreshNoScale(cached, clock, ttl) ==
    cached # NoEntry /\ clock - cached.timestamp < ttl

\* cached && now - cached.timestamp < ttl * 1000
isFresh(cached, clock, ttl) ==
    cached # NoEntry /\ clock - cached.timestamp < ttl * 1000

\* The LRU-like cleanup before the store ("sized" only).
cleanup(v, m) ==
    IF v = "sized" /\ Len(m) >= MaxCacheSize
    THEN cacheDelete(m, oldestKey(m))
    ELSE m

\* The key the cleanup deletes, 0 when it deletes none.
evictedKey(v, m) ==
    IF v = "sized" /\ Len(m) >= MaxCacheSize THEN oldestKey(m) ELSE 0

\* The store after a successful fetch: cleanup, then cache.set with the
\* clock value the call read before the fetch.
store(v, m, k, d, read) ==
    cacheSet(cleanup(v, m), k, [key |-> k, data |-> d, timestamp |-> read])

\* ---------------------------------------------------------------- actions
Init ==
    /\ queue = <<>>
    /\ active = {}
    /\ submitted = 0
    /\ kind = [t \in Tasks |-> "none"]
    /\ started = <<>>
    /\ parked = <<>>
    /\ waiter = [t \in Tasks |-> 0]
    /\ settled = [t \in Tasks |-> Pending]
    /\ delivered = [t \in Tasks |-> Pending]
    /\ proc = [t \in Tasks |-> "none"]
    /\ timer = [t \in Tasks |-> "none"]
    /\ input = <<>>
    /\ output = <<>>
    /\ variant = "sized"
    /\ cache = <<>>
    /\ now = 0
    /\ begun = 0
    /\ call = [c \in Calls |-> NoCall]
    /\ keysUsed = 0
    /\ fetches = 0
    /\ returned = NoReturn
    /\ evicted = 0

\* A caller calls requestQueue.add(task) with a task of kind k; a run makes
\* at most n calls.
Add(k, n) ==
    /\ submitted < n
    /\ submitted' = submitted + 1
    /\ Install(add([St EXCEPT !.kind[submitted + 1] = k], submitted + 1))
    /\ UNCHANGED <<pureVars, cacheVars>>

\* The promise a running generic task returned settles.
Settle(t, o) ==
    /\ t \in active
    /\ kind[t] = "async"
    /\ settled[t] = Pending
    /\ settled' = [settled EXCEPT ![t] = o]
    /\ UNCHANGED <<queue, active, submitted, kind, started, parked, waiter,
                   delivered, proc, timer, pureVars, cacheVars>>

\* The microtask after the settlement: execute() resumes after its await.
Finally(t) ==
    /\ t \in active
    /\ kind[t] = "async"
    /\ settled[t] # Pending
    /\ Install(resume(St, t))
    /\ UNCHANGED <<submitted, pureVars, cacheVars>>

AddAsync == Add("async", NumTasks)
AddThrowing == Add("throws", NumTasks)
SettleOk == \E t \in Tasks : Settle(t, Resolved(TaskValue(t)))
SettleErr == \E t \in Tasks : Settle(t, Rejected(TaskError(t)))
RunFinally == \E t \in Tasks : Finally(t)

NextQueue == AddAsync \/ AddThrowing \/ SettleOk \/ SettleErr \/ RunFinally

SpecQueue == Init /\ [][NextQueue]_vars

\* Every started task eventually settles, and the microtask that resumes
\* execute() after a settlement always runs.
FairSpecQueue ==
    /\ SpecQueue
    /\ WF_vars(SettleOk \/ SettleErr)
    /\ WF_vars(RunFinally)

\* ------------------------------------------- runPythonScriptQueued: actions
\* The outputs of the processes of a concurrent run: a sample of Texts.
RunStdout == {"", "{\"drivers\":2}"}
RunStderr == {"", "Traceback"}

\* runPythonScriptQueued(script, args): requestQueue.add(task).
Submit == Add("python", NumProcs)

\* The timer of a launched process fires before its 'close' event.
TimerFires ==
    \E t \in Tasks :
        /\ timer[t] = "armed"
        /\ Install(timeoutCallback(St, t))
        /\ UNCHANGED <<submitted, pureVars, cacheVars>>

\* A launched process, killed or not, exits and its 'close' event arrives.
Close ==
    \E t \in Tasks, code \in ExitCodes, data \in RunStdout, error \in RunStderr :
        /\ proc[t] \in {"running", "killed"}
        /\ Install(closeListener(St, t, code, data, error))
        /\ UNCHANGED <<submitted, pureVars, cacheVars>>

NextPython == Submit \/ TimerFires \/ Close

SpecPython == Init /\ [][NextPython]_vars

\* ----------------------------------------------- 'close' handler: actions
\* One 'close' event: an exit status with any buffered stdout and stderr.
InitClose ==
    /\ Init!1 /\ Init!2 /\ Init!3 /\ Init!4 /\ Init!5 /\ Init!6 /\ Init!7
    /\ Init!8 /\ Init!9 /\ Init!10 /\ Init!11
    /\ Init!14 /\ Init!15 /\ Init!16 /\ Init!17 /\ Init!18 /\ Init!19
    /\ Init!20 /\ Init!21 /\ Init!22
    /\ input \in {[code |-> c, data |-> d, error |-> e] :
                     c \in ExitCodes, d \in Texts, e \in Texts}
    /\ output = <<>>

ApplyCloseHandler ==
    /\ output = <<>>
    /\ output' = closeHandler(input.code, input.data, input.error)
    /\ UNCHANGED <<queueVars, cacheVars, input>>

SpecClose == InitClose /\ [][ApplyCloseHandler]_vars

\* --------------------------------------------------- getCachedData: actions
InitCache ==
    /\ Init!1 /\ Init!2 /\ Init!3 /\ Init!4 /\ Init!5 /\ Init!6 /\ Init!7
    /\ Init!8 /\ Init!9 /\ Init!10 /\ Init!11 /\ Init!12 /\ Init!13
    /\ variant \in {"fixed", "sized"}
    /\ Init!15 /\ Init!16 /\ Init!17 /\ Init!18 /\ Init!19 /\ Init!20
    /\ Init!21 /\ Init!22

\* Time passes.
Tick ==
    /\ now < MaxTime * 1000
    /\ now' = now + 1000
    /\ UNCHANGED <<queueVars, pureVars, variant, cache, begun, call, keysUsed,
                   fetches, returned, evicted>>

\* Mutant: a miss for a key whose fetch is in flight joins that fetch.
BeginCallJoinsInFlight(k, ttl) ==
    /\ begun < NumCalls
    /\ k <= keysUsed + 1
    /\ begun' = begun + 1
    /\ keysUsed' = IF k > keysUsed THEN k ELSE keysUsed
    /\ LET cached == cacheGet(cache, k)
       IN  IF isFresh(cached, now, effectiveTtl(variant, ttl))
           THEN /\ call' = [call EXCEPT ![begun + 1].pc = "over"]
                /\ returned' = [how |-> "hit", value |-> cached.data]
                /\ evicted' = 0
                /\ fetches' = fetches
           ELSE /\ call' = [call EXCEPT ![begun + 1] =
                               [pc |-> "fetching", key |-> k, now |-> now]]
                /\ fetches' = IF \E c \in Calls : /\ call[c].pc = "fetching"
                                                  /\ call[c].key = k
                              THEN fetches
                              ELSE fetches + 1
                /\ returned' = returned
                /\ evicted' = evicted
    /\ UNCHANGED <<queueVars, pureVars, variant, cache, now>>

\* getCachedData(key, fetchFn, ttl) up to its await: a fresh entry is
\* returned, otherwise fetchFn() is called and the call suspends. Keys are
\* numbered in the order of their first use.
BeginCall(k, ttl) ==
    /\ begun < NumCalls
    /\ k <= keysUsed + 1
    /\ begun' = begun + 1
    /\ keysUsed' = IF k > keysUsed THEN k ELSE keysUsed
    /\ LET cached == cacheGet(cache, k)
       IN  IF isFresh(cached, now, effectiveTtl(variant, ttl))
           THEN /\ call' = [call EXCEPT ![begun + 1].pc = "over"]
                /\ returned' = [how |-> "hit", value |-> cached.data]
                /\ evicted' = 0
                /\ fetches' = fetches
           ELSE /\ call' = [call EXCEPT ![begun + 1] =
                               [pc |-> "fetching", key |-> k, now |-> now]]
                /\ fetches' = fetches + 1
                /\ returned' = returned
                /\ evicted' = evicted
    /\ UNCHANGED <<queueVars, pureVars, variant, cache, now>>

Begin == \E k \in Keys, ttl \in 1..MaxTtl : BeginCall(k, ttl)

\* fetchFn() of call c resolves with data that names the call: the store,
\* then the return.
FetchOk ==
    \E c \in Calls :
        /\ call[c].pc = "fetching"
        /\ cache' = store(variant, cache, call[c].key, c, call[c].now)
        /\ call' = [call EXCEPT ![c] = [pc |-> "over", key |-> 0, now |-> 0]]
        /\ returned' = [how |-> "stored", value |-> c]
        /\ evicted' = evictedKey(variant, cache)
        /\ UNCHANGED <<queueVars, pureVars, variant, now, begun, keysUsed,
                       fetches>>

\* Mutant: a failed fetch is stored like a result.
FetchFailCachesFailure ==
    \E c \in Calls :
        /\ call[c].pc = "fetching"
        /\ cache' = store(variant, cache, call[c].key, 0, call[c].now)
        /\ call' = [call EXCEPT ![c] = [pc |-> "over", key |-> 0, now |-> 0]]
        /\ returned' = [how |-> "failed", value |-> 0]
        /\ evicted' = evictedKey(variant, cache)
        /\ UNCHANGED <<queueVars, pureVars, variant, now, begun, keysUsed,
                       fetches>>

\* fetchFn() of call c rejects: the rejection leaves getCachedData.
FetchFail ==
    \E c \in Calls :
        /\ call[c].pc = "fetching"
        /\ call' = [call EXCEPT ![c] = [pc |-> "over", key |-> 0, now |-> 0]]
        /\ returned' = [how |-> "failed", value |-> 0]
        /\ evicted' = 0
        /\ UNCHANGED <<queueVars, pureVars, variant, cache, now, begun,
                       keysUsed, fetches>>

NextCache == Tick \/ Begin \/ FetchOk \/ FetchFail

SpecCache == InitCache /\ [][NextCache]_vars

\* ------------------------------------------------- RequestQueue: claims
Range(f) == {f[i] : i \in DOMAIN f}
QueuedTasks == {queue[i].task : i \in DOMAIN queue}
IsPrefix(a, b) == Len(a) <= Len(b) /\ a = SubSeq(b, 1, Len(a))
\* The parked tasks that have been started, in the order they were started.
StartedParked == SelectSeq(started, LAMBDA t : t \in Range(parked))
Completed == {t \in Tasks : delivered[t] # Pending}

\* C1: in every reachable state the number of active tasks is at most
\* maxConcurrent.
C1_ActiveWithinLimit == Cardinality(active) <= maxConcurrent

\* C1 witness: every slot is taken and further submissions are parked.
C1_Witness == Cardinality(active) = maxConcurrent /\ Len(queue) >= 2

\* C2: the parked tasks are started in the order they were parked: the
\* parked tasks started so far are a prefix of the parking order.
C2_WaitingStartedInOrder == IsPrefix(StartedParked, parked)

\* C2 witness: two parked tasks were started while the first submission is
\* still running and the second, submitted later, has already completed.
C2_Witness ==
    /\ Len(StartedParked) >= 2
    /\ delivered[1] = Pending
    /\ delivered[2] # Pending

\* C3: when every started task eventually settles, from some point on every
\* submitted task has been started and its caller's promise has settled,
\* and the completions equal the submissions.
C3_EverySubmissionCompletes ==
    <>[](/\ Range(started) = 1..submitted
         /\ Completed = 1..submitted
         /\ Cardinality(Completed) = submitted)

\* C3 witness: a full burst of 2 x maxConcurrent tasks, half of them parked,
\* has completed.
C3_Witness ==
    /\ submitted = NumTasks
    /\ Len(parked) >= maxConcurrent
    /\ Completed = Tasks

\* C4: a failed task whose execute() has resumed holds no slot, and the step
\* in which a failed task leaves the active set starts the head of the
\* waiting list, if there is one, leaving no more slots taken than before.
C4_FailureReleasesSlot ==
    /\ [](\A t \in Tasks :
            (IsRejected(settled[t]) /\ delivered[t] # Pending) => t \notin active)
    /\ [][\A t \in Tasks :
            (t \in active /\ IsRejected(settled[t]) /\ t \notin active') =>
                /\ delivered'[t] = settled[t]
                /\ IF queue = <<>>
                   THEN active' = active \ {t} /\ started' = started
                   ELSE /\ Len(started') > Len(started)
                        /\ started'[Len(started) + 1] = Head(queue).task
                        /\ Head(queue).task \notin QueuedTasks'
                        /\ Cardinality(active') <= Cardinality(active)]_vars

\* C4 witness: a parked task is running and a failed task has been released.
C4_Witness ==
    \E t \in Tasks, u \in Range(parked) :
        /\ kind[t] = "async"
        /\ IsRejected(delivered[t])
        /\ u \in active
        /\ t < u

\* C5: what a caller receives is the settlement of its own task, received
\* outcomes never change, and a task that has left the active set has
\* delivered its outcome.
C5_OutcomeToOwnCaller ==
    /\ [](\A c \in Tasks :
            /\ delivered[c] # Pending =>
                  /\ delivered[c] = settled[c]
                  /\ delivered[c] \in {Resolved(TaskValue(c)), Rejected(TaskError(c))}
            /\ (settled[c] # Pending /\ c \notin active) => delivered[c] = settled[c])
    /\ [][\A c \in Tasks :
            delivered[c] # Pending => delivered'[c] = delivered[c]]_vars

\* C5 witness: a parked task delivered its result, an immediately started
\* task delivered its result, and another task failed.
C5_Witness ==
    \E a \in Range(parked), b \in Tasks \ Range(parked), c \in Tasks :
        /\ IsResolved(delivered[a])
        /\ IsResolved(delivered[b])
        /\ IsRejected(delivered[c])

\* ---------------------------------------- runPythonScriptQueued: claims
LiveProcesses == {t \in Tasks : proc[t] \in {"running", "killed"}}

\* C6: a task whose timer fired was rejected with 'Request queue timeout',
\* holds no slot and its process was sent a kill; the step in which the
\* timer fires releases the slot while the process has not exited; and an
\* outcome once delivered is never changed, so a later 'close' is ignored.
C6_TimeoutKillsAndReleases ==
    /\ [](\A t \in Tasks :
            timer[t] = "fired" =>
                /\ delivered[t] = Rejected(QUEUE_TIMEOUT_MESSAGE)
                /\ t \notin active
                /\ proc[t] \in {"killed", "exited"})
    /\ [][\A t \in Tasks :
            /\ (timer[t] = "armed" /\ timer'[t] = "fired") =>
                  /\ proc[t] = "running" /\ proc'[t] = "killed"
                  /\ t \in active /\ t \notin active'
            /\ delivered[t] # Pending => delivered'[t] = delivered[t]]_vars

\* C6 witness: the 'close' event of a timed-out process has arrived, and a
\* parked task took the released slot.
C6_Witness ==
    \E t \in Tasks :
        /\ timer[t] = "fired"
        /\ proc[t] = "exited"
        /\ delivered[t] = Rejected(QUEUE_TIMEOUT_MESSAGE)
        /\ Len(parked) > 0
        /\ parked[1] \in Range(started)

\* C7 (as claimed): a non-zero exit status always ends in a rejection, with
\* the error field of stderr when stderr parses to a document that has one
\* and the raw stderr text otherwise.
C7_NonZeroExitRejects ==
    (output # <<>> /\ input.code # 0) =>
        /\ IsRejected(output)
        /\ output[2] =
              IF /\ JSONparse(input.error) # SyntaxError
                 /\ Truthy(Get(JSONparse(input.error), "error"))
              THEN MessageOf(Get(JSONparse(input.error), "error"))
              ELSE input.error

\* The parsed document without its memory_stats field.
WithoutStats(v) ==
    IF HasField(v, "memory_stats") THEN Delete(v, "memory_stats") ELSE v

\* C8 (as claimed): exit status 0 ends in 'Invalid JSON from Python script'
\* when stdout does not parse, and otherwise in a success whose payload is
\* the parsed document without its memory_stats field.
C8_CleanExitParsesAndStrips ==
    (output # <<>> /\ input.code = 0) =>
        IF JSONparse(input.data) = SyntaxError
        THEN output = Rejected(INVALID_JSON_MESSAGE)
        ELSE output = Resolved(WithoutStats(JSONparse(input.data)))

\* C9 (as claimed): the processes launched and not yet exited, killed ones
\* included, are at most maxConcurrent.
C9_LiveProcessesWithinLimit == Cardinality(LiveProcesses) <= maxConcurrent

Misses(k, ttl) ==
    ~isFresh(cacheGet(cache, k), now, effectiveTtl(variant, ttl))

\* Call c ends in this step.
Ends(c) == call[c].pc = "fetching" /\ call'[c].pc = "over"

\* C11: a call whose producer fails ends with the failure and with the
\* cache as it was (nothing created, replaced or evicted); and a call made
\* when the latest call to end was a failure invokes the producer unless a
\* fresh entry is stored for its key.
C11_FailureStoresNothing ==
    /\ [][\A c \in Calls :
            (Ends(c) /\ cache' # cache) =>
                returned' = [how |-> "stored", value |-> c]]_vars
    /\ [][FetchFail => (returned'.how = "failed" /\ cache' = cache)]_vars
    /\ [][\A k \in Keys, ttl \in 1..MaxTtl :
            (BeginCall(k, ttl) /\ returned.how = "failed" /\ Misses(k, ttl)) =>
                /\ fetches' = fetches + 1
                /\ call'[begun + 1].pc = "fetching"]_vars

\* C11 witness: the first call failed, the cache is empty, and a second call
\* for the same key has invoked the producer again.
C11_Witness ==
    /\ begun = 2
    /\ call[1].pc = "over"
    /\ returned.how = "failed"
    /\ cache = <<>>
    /\ call[2].pc = "fetching"
    /\ call[2].key = 1
    /\ fetches = 2

\* C12: in the version with a size limit the cache never holds more than
\* MaxCacheSize entries; and a store of a new key into a full cache removes
\* exactly one entry, one with the smallest timestamp: its key is a miss
\* afterwards and every other entry is still stored, unchanged.
C12_EvictsOldest ==
    /\ [](variant = "sized" => Len(cache) <= MaxCacheSize)
    /\ [][\A c \in Calls :
            (/\ Ends(c)
             /\ returned' = [how |-> "stored", value |-> c]
             /\ variant = "sized"
             /\ ~cacheHas(cache, call[c].key)
             /\ Len(cache) = MaxCacheSize) =>
                \E i \in DOMAIN cache :
                    /\ \A j \in DOMAIN cache :
                          cache[i].timestamp <= cache[j].timestamp
                    /\ ~cacheHas(cache', cache[i].key)
                    /\ \A j \in DOMAIN cache \ {i} :
                          cacheGet(cache', cache[j].key) = cache[j]
                    /\ cacheHas(cache', call[c].key)
                    /\ Len(cache') = MaxCacheSize]_vars

\* C12 witness: the latest call to end stored a new key into a full cache
\* and its cleanup deleted a key that was not the first inserted one.
C12_Witness ==
    /\ variant = "sized"
    /\ returned.how = "stored"
    /\ evicted # 0
    /\ ~cacheHas(cache, evicted)
    /\ Len(cache) = MaxCacheSize
    /\ cache[Len(cache)].data = returned.value
    /\ cache[1].key < evicted

\* C13: a call that misses while a fetch for the same key is in flight
\* invokes the producer itself and suspends on its own fetch; and a call
\* that ends with a result ends with the data of its own fetch, leaving
\* every other call in flight where it was.
C13_NoDeduplication ==
    /\ [][\A k \in Keys, ttl \in 1..MaxTtl :
            (/\ BeginCall(k, ttl)
             /\ Misses(k, ttl)
             /\ \E c \in Calls : call[c].pc = "fetching" /\ call[c].key = k) =>
                /\ fetches' = fetches + 1
                /\ call'[begun + 1] = [pc |-> "fetching", key |-> k, now |-> now]
                /\ \A c \in Calls \ {begun + 1} : call'[c] = call[c]]_vars
    /\ [][\A c \in Calls :
            Ends(c) =>
                /\ returned' \in {[how |-> "stored", value |-> c],
                                  [how |-> "failed", value |-> 0]}
                /\ \A d \in Calls \ {c} : call'[d] = call[d]]_vars

\* C13 witness: two calls for one key are in flight, the producer was
\* invoked twice and nothing is stored yet.
C13_Witness ==
    /\ begun = 2
    /\ fetches = 2
    /\ cache = <<>>
    /\ call[1].pc = "fetching"
    /\ call[2].pc = "fetching"
    /\ call[1].key = call[2].key

\* ---------------------------------------------------------- fantasy scoring
POINTS_SYSTEM ==
    [race |-> [positions |-> <<25, 18, 15, 12, 10, 8, 6, 4, 2, 1>>,
               positionsGained |-> 1,
               positionsLost |-> -1,
               overtakes |-> 1,
               fastestLap |-> 10,
               driverOfTheDay |-> 10,
               dnf |-> -20,
               disqualified |-> -20],
     qualifying |-> [Q3_appearance |-> 0,
                     Q2_appearance |-> 0,
                     positions |-> <<10, 9, 8, 7, 6, 5, 4, 3, 2, 1>>]]

\* table[position]: the property named by the position, undefined when the
\* table has none (a position past the table, null).
lookup(table, position) ==
    IF position[1] = "num" /\ position[2] \in DOMAIN table
    THEN JNum(table[position[2]])
    ELSE JUndefined

\* ToNumber of an operand of the subtraction: null is 0.
ToNumber(v) == IF v = JNull THEN 0 ELSE v[2]

\* Math.abs
Abs(n) == IF n < 0 THEN -n ELSE n

\* let points = 0; const breakdown = {}; let ignorePosLost = false;
Start == [points |-> 0, breakdown |-> [k \in {} |-> 0], ignorePosLost |-> FALSE]

\* Mutant: the key is written and the points are left alone.
creditKeyOnly(s, key, v) ==
    [s EXCEPT !.breakdown = (key :> v) @@ s.breakdown]

\* points += v; breakdown[key] = v;
credit(s, key, v) ==
    [s EXCEPT !.points = s.points + v,
              !.breakdown = (key :> v) @@ s.breakdown]

\* return { points, breakdown };
result(s) == [points |-> s.points, breakdown |-> s.breakdown]

\* Mutant: an appearance is written only when it is worth points.
calculateQualifyingPointsSkipsZero(qualifyingResult) ==
    LET positionPoints ==
            lookup(POINTS_SYSTEM.qualifying.positions, qualifyingResult.position)
    IN  result(IF Truthy(positionPoints)
               THEN credit(Start, "position", positionPoints[2])
               ELSE Start)

calculateQualifyingPoints(qualifyingResult) ==
    LET s1 == IF qualifyingResult.Q2
              THEN credit(Start, "Q2_appearance",
                          POINTS_SYSTEM.qualifying.Q2_appearance)
              ELSE Start
        s2 == IF qualifyingResult.Q3
              THEN credit(s1, "Q3_appearance",
                          POINTS_SYSTEM.qualifying.Q3_appearance)
              ELSE s1
        positionPoints ==
            lookup(POINTS_SYSTEM.qualifying.positions, qualifyingResult.position)
    IN  result(IF Truthy(positionPoints)
               THEN credit(s2, "position", positionPoints[2])
               ELSE s2)

\* Mutant: the race is scored with the qualifying table.
positionStepQualifyingTable(s, raceResult) ==
    LET positionPoints ==
            lookup(POINTS_SYSTEM.qualifying.positions, raceResult.position)
    IN  IF positionPoints # JUndefined
        THEN credit(s, "position", positionPoints[2])
        ELSE s

\* Position points.
positionStep(s, raceResult) ==
    LET positionPoints ==
            lookup(POINTS_SYSTEM.race.positions, raceResult.position)
    IN  IF positionPoints # JUndefined
        THEN credit(s, "position", positionPoints[2])
        ELSE s

fastestLapStep(s, raceResult) ==
    IF raceResult.fastestLap
    THEN credit(s, "fastestLap", POINTS_SYSTEM.race.fastestLap)
    ELSE s

driverOfTheDayStep(s, raceResult) ==
    IF raceResult.driverOfTheDay
    THEN credit(s, "driverOfTheDay", POINTS_SYSTEM.race.driverOfTheDay)
    ELSE s

dnfStatuses == {"DNF", "Not Classified", "Retired", "Mechanical", "Accident"}

\* Mutant: the dnf flag counts whatever the status.
isDnfLappedIncluded(raceResult) ==
    raceResult.status \in dnfStatuses \/ raceResult.dnf

\* dnfStatuses.includes(status) || (dnf && status !== 'Lapped')
isDnf(raceResult) ==
    \/ raceResult.status \in dnfStatuses
    \/ (raceResult.dnf /\ raceResult.status # "Lapped")

dnfStep(s, raceResult) ==
    IF isDnf(raceResult)
    THEN [credit(s, "dnf", POINTS_SYSTEM.race.dnf) EXCEPT !.ignorePosLost = TRUE]
    ELSE s

\* Mutant: a DNF blocks the positions gained as well.
positionsStepDnfBlocksBoth(s, raceResult, qualifyingResult) ==
    LET positionsGained ==
            ToNumber(qualifyingResult.position) - ToNumber(raceResult.position)
    IN  IF positionsGained > 0 /\ ~s.ignorePosLost
        THEN credit(s, "positionsGained",
                    positionsGained * POINTS_SYSTEM.race.positionsGained)
        ELSE IF positionsGained < 0 /\ ~s.ignorePosLost
             THEN credit(s, "positionsLost",
                         Abs(positionsGained) * POINTS_SYSTEM.race.positionsLost)
             ELSE s

\* Positions gained or lost between the grid and the finish.
positionsStep(s, raceResult, qualifyingResult) ==
    LET positionsGained ==
            ToNumber(qualifyingResult.position) - ToNumber(raceResult.position)
    IN  IF positionsGained > 0
        THEN credit(s, "positionsGained",
                    positionsGained * POINTS_SYSTEM.race.positionsGained)
        ELSE IF positionsGained < 0 /\ ~s.ignorePosLost
             THEN credit(s, "positionsLost",
                         Abs(positionsGained) * POINTS_SYSTEM.race.positionsLost)
             ELSE s

\* Mutant: any number of overtakes is worth one overtake.
overtakesStepFlat(s, raceResult) ==
    IF raceResult.overtakes # 0
    THEN credit(s, "overtakes", POINTS_SYSTEM.race.overtakes)
    ELSE s

overtakesStep(s, raceResult) ==
    IF raceResult.overtakes # 0
    THEN credit(s, "overtakes",
                raceResult.overtakes * POINTS_SYSTEM.race.overtakes)
    ELSE s

\* Mutant: a driver already penalised as DNF is not penalised again.
disqualifiedStepUnlessDnf(s, raceResult) ==
    IF raceResult.status = "Disqualified" /\ ~s.ignorePosLost
    THEN credit(s, "disqualified", POINTS_SYSTEM.race.disqualified)
    ELSE s

disqualifiedStep(s, raceResult) ==
    IF raceResult.status = "Disqualified"
    THEN credit(s, "disqualified", POINTS_SYSTEM.race.disqualified)
    ELSE s

calculateRacePoints(raceResult, qualifyingResult) ==
    LET s1 == positionStep(Start, raceResult)
        s2 == fastestLapStep(s1, raceResult)
        s3 == driverOfTheDayStep(s2, raceResult)
        s4 == dnfStep(s3, raceResult)
        s5 == positionsStep(s4, raceResult, qualifyingResult)
        s6 == overtakesStep(s5, raceResult)
        s7 == disqualifiedStep(s6, raceResult)
    IN  result(s7)

\* fantasyPoints[driver] of the route, for a driver with both records.
driverPoints(raceResult, qualiResult) ==
    LET qualifyingPoints == calculateQualifyingPoints(qualiResult)
        racePoints == calculateRacePoints(raceResult, qualiResult)
    IN  [total |-> qualifyingPoints.points + racePoints.points,
         qualifying |-> qualifyingPoints,
         race |-> racePoints]

\* -------------------------------------------------- fantasy scoring: actions
Positions == {JNum(p) : p \in 1..MaxPosition}
\* The statuses the code names, and two it does not.
Statuses == dnfStatuses \cup {"Disqualified", "Lapped", "Finished", "+1 Lap"}

\* A qualifying record as the data script writes it.
QualifyingResults ==
    [position : Positions, Q2 : BOOLEAN, Q3 : BOOLEAN]

\* A race record: the position is null for a driver without a
\* classification; a flag a record lacks reads like false, a count it lacks
\* like 0.
RaceResults ==
    [position : Positions \cup {JNull},
     status : Statuses,
     dnf : BOOLEAN,
     fastestLap : BOOLEAN,
     driverOfTheDay : BOOLEAN,
     overtakes : 0..MaxOvertakes]

\* One driver of the document: a race record and a qualifying record.
InitScoring ==
    /\ Init!1 /\ Init!2 /\ Init!3 /\ Init!4 /\ Init!5 /\ Init!6 /\ Init!7
    /\ Init!8 /\ Init!9 /\ Init!10 /\ Init!11
    /\ Init!14 /\ Init!15 /\ Init!16 /\ Init!17 /\ Init!18 /\ Init!19
    /\ Init!20 /\ Init!21 /\ Init!22
    /\ input \in [race : RaceResults, quali : QualifyingResults]
    /\ output = <<>>

ApplyScoring ==
    /\ output = <<>>
    /\ output' = driverPoints(input.race, input.quali)
    /\ UNCHANGED <<queueVars, cacheVars, input>>

SpecScoring == InitScoring /\ [][ApplyScoring]_vars

\* --------------------------------------------------- fantasy scoring: claims
RECURSIVE SumOf(_)
\* The sum of the values of a breakdown.
SumOf(b) ==
    IF DOMAIN b = {}
    THEN 0
    ELSE LET k == CHOOSE x \in DOMAIN b : TRUE
         IN  b[k] + SumOf([j \in DOMAIN b \ {k} |-> b[j]])

\* What the keys in ks add to the points of a score: the points less the
\* other values of its breakdown.
Contribution(score, ks) ==
    score.points
        - SumOf([j \in DOMAIN score.breakdown \ ks |-> score.breakdown[j]])

\* A key is in the breakdown with value v, and adds v to the points.
Adds(score, key, v) ==
    /\ key \in DOMAIN score.breakdown
    /\ score.breakdown[key] = v
    /\ Contribution(score, {key}) = v

\* A key is not in the breakdown, and nothing is added for it.
AddsNothing(score, key) ==
    /\ key \notin DOMAIN score.breakdown
    /\ Contribution(score, {key}) = 0

Scored == output # <<>>

\* C14: the qualifying score has key 'position' with value 11 - p exactly for
\* a position p in 1..10 and adds nothing for a position above 10; it has
\* 'Q2_appearance' with value 0 exactly when Q2 is true, 'Q3_appearance'
\* with value 0 exactly when Q3 is true, and no other key.
C14_QualifyingScore ==
    Scored =>
        LET q == input.quali
            p == q.position[2]
            score == output.qualifying
        IN  /\ IF p \in 1..10
               THEN Adds(score, "position", 11 - p)
               ELSE AddsNothing(score, "position")
            /\ IF q.Q2
               THEN Adds(score, "Q2_appearance", 0)
               ELSE AddsNothing(score, "Q2_appearance")
            /\ IF q.Q3
               THEN Adds(score, "Q3_appearance", 0)
               ELSE AddsNothing(score, "Q3_appearance")
            /\ DOMAIN score.breakdown \subseteq
                  {"position", "Q2_appearance", "Q3_appearance"}
            /\ score.points = IF p \in 1..10 THEN 11 - p ELSE 0

\* C14 witness: position 11 with Q2 reached and Q3 not: the breakdown is the
\* one key 'Q2_appearance' with value 0.
C14_Witness ==
    /\ Scored
    /\ input.quali = [position |-> JNum(11), Q2 |-> TRUE, Q3 |-> FALSE]
    /\ output.qualifying =
          [points |-> 0, breakdown |-> ("Q2_appearance" :> 0)]

ClaimedDnf(raceResult) ==
    \/ raceResult.status \in
          {"DNF", "Not Classified", "Retired", "Mechanical", "Accident"}
    \/ (raceResult.dnf /\ raceResult.status # "Lapped")

\* C16: the race score has key 'dnf' with value -20 exactly when the status is
\* DNF, Not Classified, Retired, Mechanical or Accident, or the dnf flag is
\* true and the status is not Lapped.
C16_DnfPenalty ==
    Scored =>
        IF ClaimedDnf(input.race)
        THEN Adds(output.race, "dnf", -20)
        ELSE AddsNothing(output.race, "dnf")

\* C16 witness: status Lapped with the dnf flag true: no 'dnf' key.
C16_Witness ==
    /\ Scored
    /\ input.race.status = "Lapped"
    /\ input.race.dnf
    /\ "dnf" \notin DOMAIN output.race.breakdown

\* C17: for an integer finishing position and delta = grid position less
\* finishing position: delta > 0 adds delta under 'positionsGained', DNF or
\* not; delta < 0 adds delta under 'positionsLost' unless the driver is DNF;
\* otherwise neither key is present; the two keys are never both present.
C17_PositionsDelta ==
    (Scored /\ input.race.position # JNull) =>
        LET delta == input.quali.position[2] - input.race.position[2]
            score == output.race
        IN  /\ IF delta > 0
               THEN Adds(score, "positionsGained", delta)
               ELSE AddsNothing(score, "positionsGained")
            /\ IF delta < 0 /\ ~ClaimedDnf(input.race)
               THEN Adds(score, "positionsLost", delta)
               ELSE AddsNothing(score, "positionsLost")
            /\ ~({"positionsGained", "positionsLost"}
                    \subseteq DOMAIN score.breakdown)

\* C17 witness: a DNF driver who finished ahead of the grid position has
\* both 'dnf' and 'positionsGained'.
C17_Witness ==
    /\ Scored
    /\ input.race.status = "DNF"
    /\ input.race.position # JNull
    /\ {"dnf", "positionsGained"} \subseteq DOMAIN output.race.breakdown
    /\ output.race.breakdown["positionsGained"] > 1

\* C18: the race score has key 'disqualified' with value -20 exactly when the
\* status is Disqualified; with the dnf flag true as well, 'dnf' and
\* 'disqualified' are both present and together take 40 points.
C18_DisqualifiedStacks ==
    Scored =>
        LET score == output.race
        IN  /\ IF input.race.status = "Disqualified"
               THEN Adds(score, "disqualified", -20)
               ELSE AddsNothing(score, "disqualified")
            /\ (input.race.status = "Disqualified" /\ input.race.dnf) =>
                  /\ Adds(score, "dnf", -20)
                  /\ Contribution(score, {"dnf", "disqualified"}) = -40

\* C18 witness: a disqualified winner with the dnf flag set scores
\* 25 - 20 - 20.
C18_Witness ==
    /\ Scored
    /\ input.race.status = "Disqualified"
    /\ input.race.dnf
    /\ input.race.position = JNum(1)
    /\ input.quali.position = JNum(1)
    /\ output.race.points = -15 + 10 * Cardinality(
          {k \in {"fastestLap", "driverOfTheDay"} : input.race[k]})
          + input.race.overtakes

\* The combined example: win from pole with fastest lap, driver of the day
\* and two overtakes.
CombinedExample ==
    [race |-> [position |-> JNum(1), status |-> "Finished", dnf |-> FALSE,
               fastestLap |-> TRUE, driverOfTheDay |-> TRUE, overtakes |-> 2],
     quali |-> [position |-> JNum(1), Q2 |-> FALSE, Q3 |-> FALSE]]

\* C19: the race score has 'fastestLap' with value 10 exactly when fastestLap
\* is true, 'driverOfTheDay' with value 10 exactly when driverOfTheDay is
\* true, and 'overtakes' with value n exactly when overtakes is n > 0; the
\* combined example scores 47 race points.
C19_Bonuses ==
    Scored =>
        LET race == input.race
            score == output.race
        IN  /\ IF race.fastestLap
               THEN Adds(score, "fastestLap", 10)
               ELSE AddsNothing(score, "fastestLap")
            /\ IF race.driverOfTheDay
               THEN Adds(score, "driverOfTheDay", 10)
               ELSE AddsNothing(score, "driverOfTheDay")
            /\ IF race.overtakes > 0
               THEN Adds(score, "overtakes", race.overtakes)
               ELSE AddsNothing(score, "overtakes")
            /\ input = CombinedExample => score.points = 47

\* C19 witness: the combined example has been scored.
C19_Witness ==
    /\ Scored
    /\ input = CombinedExample
    /\ output.race.points = 47
    /\ DOMAIN output.race.breakdown =
          {"position", "fastestLap", "driverOfTheDay", "overtakes"}

\* C20: the points of the qualifying score and of the race score are the
\* sums of their breakdowns, and the driver's total is the sum of the two
\* points.
C20_PointsAreSums ==
    Scored =>
        /\ output.qualifying.points = SumOf(output.qualifying.breakdown)
        /\ output.race.points = SumOf(output.race.breakdown)
        /\ output.total = output.qualifying.points + output.race.points

\* C20 witness: a race score with all seven keys and a qualifying score
\* with all three.
C20_Witness ==
    /\ Scored
    /\ Cardinality(DOMAIN output.race.breakdown) = 7
    /\ Cardinality(DOMAIN output.qualifying.breakdown) = 3
    /\ output.total # 0

\* ------------------------------------------- GET /points/:year/:round
\* The route exists in two versions: "inline" (routes/fantasy.js: the script
\* is passed with -c and the handler body is inside a try) and "script"
\* (the script is a file and the handler has a try around JSON.parse only).
Versions == {"inline", "script"}

Drivers == {"VER", "HAM", "NOR"}

\* The qualifying record and the race record of a driver: a winner from
\* pole, and retirements without a classification.
QualiRecord(d) ==
    [driver |-> d,
     position |-> IF d = "VER" THEN JNum(1) ELSE JNum(3),
     Q2 |-> TRUE,
     Q3 |-> TRUE]

RaceRecord(d) ==
    [driver |-> d,
     position |-> IF d = "VER" THEN JNum(1) ELSE JNull,
     status |-> IF d = "VER" THEN "Finished" ELSE "Retired",
     dnf |-> d # "VER",
     fastestLap |-> d = "VER",
     driverOfTheDay |-> FALSE,
     overtakes |-> 0]

JArr(x) == <<"arr", x>>

\* The lists a document can hold under one name: any MaxRecords drivers in
\* any order, repeats included.
DriverLists ==
    UNION {[1..n -> Drivers] : n \in 0..MaxRecords}

\* The documents of the data script: event_info with a qualifying list, a
\* race list, both or none.
Documents ==
    {JObj([event_info |-> JStr("GP")])}
    \cup {JObj([event_info |-> JStr("GP"),
                qualifying |-> JArr([i \in DOMAIN q |-> QualiRecord(q[i])])]) :
            q \in DriverLists}
    \cup {JObj([event_info |-> JStr("GP"),
                race |-> JArr([i \in DOMAIN r |-> RaceRecord(r[i])])]) :
            r \in DriverLists}
    \cup {JObj([event_info |-> JStr("GP"),
                qualifying |-> JArr([i \in DOMAIN q |-> QualiRecord(q[i])]),
                race |-> JArr([i \in DOMAIN r |-> RaceRecord(r[i])])]) :
            q \in DriverLists, r \in DriverLists}

\* What the process can have written on stdout: a text of Texts, or the
\* JSON text of a document.
Text(x) == <<"text", x>>
JsonText(doc) == <<"json", doc>>
RouteTexts == {"", "Traceback", "null", "{\"error\":\"boom\"}", "{\"detail\":\"x\"}"}
RouteStdout ==
    {Text(x) : x \in RouteTexts} \cup {JsonText(doc) : doc \in Documents}

\* JSON.parse(data)
parseStdout(data) ==
    IF data[1] = "text" THEN JSONparse(data[2]) ELSE data[2]

\* data.indexOf('{') === -1 || data.lastIndexOf('}') === -1
lacksBraces(data) ==
    data[1] = "text" /\ data[2] \in {"", "Traceback", "null"}

\* res.status(status).json(body)
respond(status, body) == [status |-> status, body |-> body]

\* What one run of the 'close' listener does: the responses it sends, and
\* whether an exception leaves the listener.
Sent(responses) == [responses |-> responses, threw |-> FALSE]
Thrown == [responses |-> <<>>, threw |-> TRUE]

\* Mutant: the first race record is taken whatever its driver.
findFirst(race, driver) ==
    IF race = <<>> THEN JUndefined ELSE JObj(race[1])

\* results.race.find((r) => r.driver === driver)
find(race, driver) ==
    IF \E i \in DOMAIN race : race[i].driver = driver
    THEN JObj(race[CHOOSE i \in DOMAIN race :
                      /\ race[i].driver = driver
                      /\ \A j \in 1..(i - 1) : race[j].driver # driver])
    ELSE JUndefined

RECURSIVE forEachQualifying(_, _, _)
\* results.qualifying.forEach(...): the drivers without a race record are
\* skipped, a driver met again replaces its entry.
forEachQualifying(qualifying, race, fantasyPoints) ==
    IF qualifying = <<>>
    THEN fantasyPoints
    ELSE LET qualiResult == Head(qualifying)
             raceResult == find(race, qualiResult.driver)
         IN  forEachQualifying(
                 Tail(qualifying), race,
                 IF raceResult = JUndefined
                 THEN fantasyPoints
                 ELSE (qualiResult.driver
                           :> driverPoints(raceResult[2], qualiResult))
                          @@ fantasyPoints)

\* The scoring of a parsed document and the response: reading forEach of a
\* missing qualifying list, or find of a missing race list, is a TypeError.
scoreDocument(results) ==
    LET qualifying == Get(results, "qualifying")
        race == Get(results, "race")
    IN  IF qualifying = JUndefined
        THEN Thrown
        ELSE IF qualifying[2] # <<>> /\ race = JUndefined
             THEN Thrown
             ELSE Sent(<<respond(200,
                     [event |-> Get(results, "event_info"),
                      points |-> forEachQualifying(
                                     qualifying[2],
                                     IF race = JUndefined THEN <<>> ELSE race[2],
                                     [d \in {} |-> 0]),
                      unprocessed |-> results])>>)

\* python.on('close') of the "script" version.
scriptClose(code, data, error) ==
    IF code # 0
    THEN Sent(<<respond(500, [error |-> "Error fetching race data",
                               details |-> error])>>)
    ELSE LET results == parseStdout(data)
         IN  IF results = SyntaxError
             THEN Sent(<<respond(500, [error |-> "Failed to parse race data",
                                       details |-> "SyntaxError"])>>)
             ELSE IF results = JNull
                  THEN Thrown
                  ELSE IF Truthy(Get(results, "error"))
                       THEN Sent(<<respond(500,
                                    [error |-> Get(results, "error")[2]])>>)
                       ELSE scoreDocument(results)

\* The catch of the "inline" version.
caught(message, data) ==
    Sent(<<respond(500, [error |-> "Error processing results",
                         details |-> message,
                         data |-> data])>>)

\* python.on('close') of the "inline" version.
inlineClose(code, data, error) ==
    IF code # 0
    THEN Sent(<<respond(500, [error |-> "Error fetching race data",
                               details |-> error])>>)
    ELSE IF lacksBraces(data)
         THEN caught("No JSON data found in Python script output", data)
         ELSE LET results == parseStdout(data)
              IN  IF results = SyntaxError
                  THEN caught("SyntaxError", data)
                  ELSE IF Truthy(Get(results, "error"))
                       THEN Sent(<<respond(500,
                                    [error |-> "Error in Python script",
                                     details |-> Get(results, "error")[2]])>>)
                       ELSE LET scored == scoreDocument(results)
                            IN  IF scored.threw
                                THEN caught("TypeError", data)
                                ELSE scored

routeClose(version, code, data, error) ==
    IF version = "inline"
    THEN inlineClose(code, data, error)
    ELSE scriptClose(code, data, error)

\* ---------------------------------- GET /points/:year/:round: one close
InitRoute ==
    /\ Init!1 /\ Init!2 /\ Init!3 /\ Init!4 /\ Init!5 /\ Init!6 /\ Init!7
    /\ Init!8 /\ Init!9 /\ Init!10 /\ Init!11
    /\ Init!14 /\ Init!15 /\ Init!16 /\ Init!17 /\ Init!18 /\ Init!19
    /\ Init!20 /\ Init!21 /\ Init!22
    /\ input \in [version : Versions, code : ExitCodes, data : RouteStdout,
                   error : RunStderr]
    /\ output = <<>>

ApplyRouteClose ==
    /\ output = <<>>
    /\ output' = routeClose(input.version, input.code, input.data, input.error)
    /\ UNCHANGED <<queueVars, cacheVars, input>>

SpecRoute == InitRoute /\ [][ApplyRouteClose]_vars

\* ------------------------------ GET /points/:year/:round: requests
\* The outputs of the processes of a concurrent run: a sample of RouteStdout.
FantasyStdout ==
    {Text("Traceback"), Text("null"),
     JsonText(JObj([event_info |-> JStr("GP"),
                    qualifying |-> JArr(<<QualiRecord("VER"), QualiRecord("HAM")>>),
                    race |-> JArr(<<RaceRecord("VER")>>)]))}

\* An exception that left a listener ends the server process.
Crashed == \E t \in Tasks : output[t] # <<>> /\ output[t].threw

InitFantasy ==
    /\ Init!1 /\ Init!2 /\ Init!3 /\ Init!4 /\ Init!5 /\ Init!6 /\ Init!7
    /\ Init!8 /\ Init!9 /\ Init!10 /\ Init!11
    /\ Init!14 /\ Init!15 /\ Init!16 /\ Init!17 /\ Init!18 /\ Init!19
    /\ Init!20 /\ Init!21 /\ Init!22
    /\ input \in [version : Versions]
    /\ output = [t \in Tasks |-> <<>>]

\* A request arrives: the handler spawns python3 and registers its
\* listeners; it calls neither requestQueue.add nor setTimeout.
FantasyRequest ==
    /\ ~Crashed
    /\ submitted < NumProcs
    /\ submitted' = submitted + 1
    /\ proc' = [proc EXCEPT ![submitted + 1] = "running"]
    /\ UNCHANGED <<queue, active, kind, started, parked, waiter, settled,
                   delivered, timer, pureVars, cacheVars>>

\* The process of a request exits and its 'close' listener runs.
FantasyClose ==
    \E t \in Tasks, code \in ExitCodes, data \in FantasyStdout,
       error \in RunStderr :
        /\ ~Crashed
        /\ proc[t] = "running"
        /\ proc' = [proc EXCEPT ![t] = "exited"]
        /\ output' = [output EXCEPT
                         ![t] = routeClose(input.version, code, data, error)]
        /\ UNCHANGED <<queue, active, submitted, kind, started, parked, waiter,
                       settled, delivered, timer, input, cacheVars>>

NextFantasy == FantasyRequest \/ FantasyClose

SpecFantasy == InitFantasy /\ [][NextFantasy]_vars

\* ---------------------------------- GET /points/:year/:round: claims
Closed == output # <<>>
DriversIn(list) == {list[i].driver : i \in DOMAIN list}
\* The process exited with 0 and wrote a document with both lists.
BothLists ==
    /\ input.code = 0
    /\ input.data[1] = "json"
    /\ HasField(input.data[2], "qualifying")
    /\ HasField(input.data[2], "race")

\* C21: for a document with a qualifying list and a race list the one
\* response is the 200 response, and the keys of its points mapping are the
\* drivers with a record in both lists: the drivers of one list only are
\* left out and raise no error.
C21_MatchedDriversOnly ==
    (Closed /\ BothLists) =>
        /\ ~output.threw
        /\ Len(output.responses) = 1
        /\ output.responses[1].status = 200
        /\ DOMAIN output.responses[1].body.points =
              DriversIn(Get(input.data[2], "qualifying")[2])
                  \cap DriversIn(Get(input.data[2], "race")[2])

\* C21 witness: VER and HAM qualified, VER and NOR raced: the points
\* mapping has the key VER alone.
C21_Witness ==
    /\ Closed
    /\ BothLists
    /\ DriversIn(Get(input.data[2], "qualifying")[2]) = {"VER", "HAM"}
    /\ DriversIn(Get(input.data[2], "race")[2]) = {"VER", "NOR"}
    /\ Len(output.responses) = 1
    /\ DOMAIN output.responses[1].body.points = {"VER"}

\* C30 (as claimed): whatever the exit status and stdout, the 'close'
\* listener sends exactly one response and no exception leaves it.
C30_ExactlyOneResponse ==
    Closed => (Len(output.responses) = 1 /\ ~output.threw)

\* C22 (as claimed): the process of a fantasy request runs in a slot of the
\* admission queue: every running process belongs to an active task, and at
\* most maxConcurrent processes run at once.
C22_FantasyProcessesQueued ==
    LET running == {t \in Tasks : proc[t] = "running"}
    IN  /\ running \subseteq active
        /\ Cardinality(running) <= maxConcurrent

\* ------------------------------------------------------ handleQueuedRoute
\* next(error): the error is handed to the error middleware.
next(message) == [next |-> message]

\* await runPythonScriptQueued(...) has settled with the outcome.
handleQueuedRoute(outcome) ==
    IF IsResolved(outcome)
    THEN respond(200, outcome[2])
    ELSE IF outcome[2] = QUEUE_TIMEOUT_MESSAGE
         THEN respond(503, [error |-> "Request timeout",
                            details |-> "The request took too long due to high server load.",
                            suggestion |-> "Please try again later"])
         ELSE next(outcome[2])

\* The first event of a launched process: its timer fires, or it closes
\* with an exit status, stdout and stderr.
ProcessEvents ==
    {[event |-> "timeout"]}
    \cup [event : {"close"}, code : ExitCodes, data : Texts, error : Texts]

\* The settlement the event gives the task's promise.
outcomeOf(e) ==
    IF e.event = "timeout"
    THEN Rejected(QUEUE_TIMEOUT_MESSAGE)
    ELSE closeHandler(e.code, e.data, e.error)

InitHandle ==
    /\ Init!1 /\ Init!2 /\ Init!3 /\ Init!4 /\ Init!5 /\ Init!6 /\ Init!7
    /\ Init!8 /\ Init!9 /\ Init!10 /\ Init!11
    /\ Init!14 /\ Init!15 /\ Init!16 /\ Init!17 /\ Init!18 /\ Init!19
    /\ Init!20 /\ Init!21 /\ Init!22
    /\ input \in ProcessEvents
    /\ output = <<>>

ApplyHandle ==
    /\ output = <<>>
    /\ output' = handleQueuedRoute(outcomeOf(input))
    /\ UNCHANGED <<queueVars, cacheVars, input>>

SpecHandle == InitHandle /\ [][ApplyHandle]_vars

\* C23 (as claimed): the response is the 503 'Request timeout' exactly when
\* the timer fired; every rejection a 'close' event produces is handed on
\* with its message.
C23_TimeoutOnlyIs503 ==
    output # <<>> =>
        LET is503 == "status" \in DOMAIN output /\ output.status = 503
        IN  /\ is503 <=> input.event = "timeout"
            /\ (/\ input.event = "close"
                 /\ IsRejected(closeHandler(input.code, input.data, input.error)))
                   => output = next(closeHandler(input.code, input.data,
                                                 input.error)[2])

\* ------------------------------------------------ task lifecycle: claims
\* The number of times task() of t was called.
Invocations(t) == Len(SelectSeq(started, LAMBDA u : u = t))

\* The stage of a task: 0 PENDING (not submitted), 1 QUEUED, 2 RUNNING,
\* 3 terminal (SUCCEEDED, TIMED_OUT or FAILED: its caller has the outcome).
Stage(t) ==
    IF delivered[t] # Pending THEN 3
    ELSE IF t \in active THEN 2
    ELSE IF t \in QueuedTasks THEN 1
    ELSE 0

\* C24: a task is in exactly one stage with the marks of that stage (not
\* yet submitted; waiting, never started; active, started once, one process
\* launched; terminal, started once, neither waiting nor active); its stage
\* never decreases; a terminal outcome never changes, its task is never
\* called again, and a process once launched is never launched again.
C24_Lifecycle ==
    /\ [](\A t \in Tasks :
            /\ Invocations(t) <= 1
            /\ ~(t \in QueuedTasks /\ t \in active)
            /\ Len(SelectSeq(queue, LAMBDA e : e.task = t)) <= 1
            /\ t > submitted => (Stage(t) = 0 /\ proc[t] = "none")
            /\ t <= submitted => Stage(t) > 0
            /\ Stage(t) = 1 =>
                  (Invocations(t) = 0 /\ proc[t] = "none" /\ t \notin active)
            /\ Stage(t) = 2 =>
                  (Invocations(t) = 1 /\ proc[t] = "running"
                   /\ t \notin QueuedTasks)
            /\ Stage(t) = 3 =>
                  /\ Invocations(t) = 1
                  /\ proc[t] \in {"killed", "exited"}
                  /\ t \notin active
                  /\ t \notin QueuedTasks)
    /\ [][\A t \in Tasks :
            /\ Stage(t)' >= Stage(t)
            /\ Stage(t) = 3 =>
                  (delivered'[t] = delivered[t] /\ Invocations(t)' = 1)
            /\ proc[t] # "none" => proc'[t] \notin {"none"}
            /\ proc[t] \in {"killed", "exited"} => proc'[t] # "running"]_vars

\* C24 witness: of three tasks one waited and then succeeded, one timed out
\* and one failed.
C24_Witness ==
    \E a, b, c \in Tasks :
        /\ a \in Range(parked)
        /\ IsResolved(delivered[a])
        /\ delivered[b] = Rejected(QUEUE_TIMEOUT_MESSAGE)
        /\ timer[b] = "fired"
        /\ IsRejected(delivered[c])
        /\ timer[c] = "cleared"

\* C26: whenever tasks wait every slot is taken; and a submission made while
\* tasks wait is appended to the queue and not started.
C26_WorkConserving ==
    /\ [](Len(queue) > 0 => Cardinality(active) = maxConcurrent)
    /\ [][(submitted' = submitted + 1 /\ Len(queue) > 0) =>
            /\ queue' = Append(queue, [task |-> submitted + 1,
                                       resolve |-> submitted + 1])
            /\ started' = started]_vars

\* C26 witness: a task that waited is running after a slot came free, every
\* slot is taken and another task still waits.
C26_Witness ==
    /\ Len(queue) > 0
    /\ Cardinality(active) = maxConcurrent
    /\ \E t \in Range(parked) : t \in active

\* ------------------------------------------- getCachedData: further claims
\* C25: an entry leaves the cache only in a step that stores a key not yet
\* present into a full cache; a store for a key already present leaves every
\* other entry as it was; and a hit leaves the cache unchanged.
C25_EvictsOnlyWhenNeeded ==
    /\ [][(\E k \in Keys : cacheHas(cache, k) /\ ~cacheHas(cache', k)) =>
            \E c \in Calls :
                /\ Ends(c)
                /\ ~cacheHas(cache, call[c].key)
                /\ Len(cache) >= MaxCacheSize]_vars
    /\ [][\A c \in Calls :
            (/\ Ends(c)
             /\ returned' = [how |-> "stored", value |-> c]
             /\ cacheHas(cache, call[c].key)) =>
                \A k \in Keys \ {call[c].key} :
                    cacheGet(cache', k) = cacheGet(cache, k)]_vars
    /\ [][(begun' = begun + 1 /\ returned'.how = "hit") =>
            cache' = cache]_vars

\* C27: the entry a successful miss stores is fresh at the moment of the
\* store for the most generous ttl a call can pass (so a call with the same
\* key and the same ttl made right after the store is a hit).
C27_StoredValueIsServed ==
    [][\A c \in Calls :
         (Ends(c) /\ returned' = [how |-> "stored", value |-> c]) =>
             isFresh(cacheGet(cache', call[c].key), now',
                     effectiveTtl(variant, MaxTtl))]_vars

\* C28: the timestamp stored for a key never decreases while the key stays
\* in the cache.
C28_TimestampsNeverDecrease ==
    [][\A k \in Keys :
         (cacheHas(cache, k) /\ cacheHas(cache', k)) =>
             cacheGet(cache', k).timestamp >= cacheGet(cache, k).timestamp]_vars

\* ------------------------------------------------- scoring: further claims
\* C29: for a race record whose position is null the race score has neither
\* a positionsGained nor a positionsLost key and no such contribution.
C29_NullPositionNoDelta ==
    (Scored /\ input.race.position = JNull) =>
        /\ AddsNothing(output.race, "positionsGained")
        /\ AddsNothing(output.race, "positionsLost")

====
